---- MODULE Spec2Model ----
(***************************************************************************)
(* ClipFlux: the temporary-file upload handoff.                            *)
(*                                                                         *)
(* A request is staged on local disk by the multer disk storage            *)
(* (src/middlewares/multer.middleware.js), its path is handed to           *)
(* uploadToCloudinary (src/utils/cloudinary.js), which awaits the remote   *)
(* store and, in its catch block, unlinks the local file.                  *)
(*                                                                         *)
(* Node runs the synchronous code between two awaits without               *)
(* interleaving, so each action below is one such run: the staging of a    *)
(* file, the entry of uploadToCloudinary up to its await, and the          *)
(* continuation after the upload promise has settled.                      *)
(*                                                                         *)
(* Requests are served once the startup script (src/index.js) has          *)
(* connected to the database and the server listens.                       *)
(***************************************************************************)
EXTENDS Integers, FiniteSets, Sequences, TLC

(* ---------------------------------------------------------------------- *)
(* Bounds                                                                 *)
(* ---------------------------------------------------------------------- *)

\* number of upload requests that may be in flight together
NumReqs == 2
\* number of distinct multipart field names the requests use
NumFields == 2

Invocations == 1 .. NumReqs

FieldNames == <<"avatar", "coverImage", "thumbnail", "videoFile">>

Fields == { FieldNames[k] : k \in 1 .. NumFields }

(* ---------------------------------------------------------------------- *)
(* Values                                                                 *)
(* ---------------------------------------------------------------------- *)

\* JavaScript's undefined, what req.file?.path is when no file was sent
Absent == "<undefined>"

\* the inputs for which no file was staged
EmptyInputs == {"", Absent}

\* JavaScript's null, the sentinel of uploadToCloudinary
Null == [null |-> TRUE]

\* the value of a call that has not ended
Pending == [pending |-> TRUE]

\* content of a file nobody wrote
NoContent == 0

\* what cloudinary.uploader.upload may resolve to
Responses ==
    { [url |-> "http://cdn/a", public_id |-> "a"],
      [url |-> "http://cdn/b", public_id |-> "b"] }

\* why cloudinary.uploader.upload may reject: transient and permanent
FailureKinds == {"network", "invalid"}

(* ---------------------------------------------------------------------- *)
(* multer disk storage                                                    *)
(* ---------------------------------------------------------------------- *)

\* destination callback: the fixed staging directory
destination == "./public/uploads/temp"

\* variant: the file name is made unique with a suffix
filenameWithSuffix(fieldname) == fieldname \o "-1"

\* filename callback: the multipart field name
filename(fieldname) == fieldname

\* the path multer reports as req.file.path
StagedPath(fieldname) == destination \o "/" \o filename(fieldname)

Paths == { StagedPath(f) : f \in Fields }

(* ---------------------------------------------------------------------- *)
(* State                                                                  *)
(* ---------------------------------------------------------------------- *)

VARIABLES
    fs,      \* local disk: path -> content (the request that wrote it)
    remote,  \* the remote store: set of [content, public_id] it holds
    calls,   \* per request: position and locals of its uploadToCloudinary
    boot,    \* the startup script: position, database, server, console
    doc,     \* one User document: in memory and as persisted
    users,   \* the users collection: the stored usernames
    video,        \* one Video document: input, document, validation
    videoModule,  \* the evaluation of the video model module
    apiResponse,  \* the last ApiResponse constructed, with its arguments
    token         \* the last token jwt.sign produced, with what it signed

vars ==
    <<fs, remote, calls, boot, doc, users, video, videoModule, apiResponse,
      token>>

\* the state of the Video model
videoVars == <<video, videoModule>>

\* the state of the models, which the upload handoff and startup leave alone
dataVars == <<doc, users, videoVars, apiResponse, token>>

\* the state of the upload handoff and the startup script
serverVars == <<fs, remote, calls, boot>>

\* the options of a call that was not made
NoOptions == [resource_type |-> "<none>"]

IdleCall ==
    [ pc            |-> "idle",
      fieldname     |-> Absent,
      file          |-> Absent,
      localfilepath |-> Absent,
      sent          |-> NoContent,
      uploadCalls   |-> 0,
      uploadPath    |-> Absent,
      options       |-> NoOptions,
      unlinkCalls   |-> 0,
      outcome       |-> "none",
      response      |-> Null,
      ret           |-> Pending,
      error         |-> "none",
      logged        |-> "" ]

\* the startup script before its first statement has run
BootStart ==
    [ pc          |-> "start",
      db          |-> "none",
      listenCalls |-> 0,
      listening   |-> FALSE,
      log         |-> << >> ]

(* ---------------------------------------------------------------------- *)
(* User model: values                                                     *)
(* ---------------------------------------------------------------------- *)

\* number of salts bcrypt may draw
NumSalts == 2

Salts == 1 .. NumSalts

\* the plaintext passwords a client may send
Plaintexts == {"secret1", "hunter22", "abc"}

\* a password value: a plaintext under the salts of the hashes applied to it
Plain(p) == [plain |-> p, salts |-> << >>]

\* the password of a document on which none was set
NoPassword == Plain("")

\* new User(): nothing set, nothing persisted
NewDoc ==
    [ pc        |-> "idle",
      password  |-> NoPassword,
      modified  |-> FALSE,
      hashInput |-> NoPassword,
      stored    |-> NoPassword,
      assigned  |-> "",
      nextCalls |-> 0,
      lastSave  |-> "none",
      candidate |-> "",
      against   |-> NoPassword,
      check     |-> "none",
      id           |-> Absent,
      username     |-> Absent,
      email        |-> Absent,
      fullname     |-> Absent,
      refreshToken |-> Absent ]

\* the users a client may register as: the document id and the three
\* required identity fields
Identities ==
    { [id |-> "u1", username |-> "ann", email |-> "ann@clip.io",
       fullname |-> "Ann Lee"],
      [id |-> "u2", username |-> "bob", email |-> "bob@clip.io",
       fullname |-> "Bob Ray"] }

\* process.env: the four settings the token methods read
env ==
    [ ACCESS_TOKEN_SECRET  |-> "access-secret",
      ACCESS_TOKEN_EXPIRY  |-> "15m",
      REFRESH_TOKEN_SECRET |-> "refresh-secret",
      REFRESH_TOKEN_EXPIRY |-> "7d" ]

\* no token signed yet
NoToken ==
    [ method    |-> "none",
      payload   |-> [_id |-> Absent],
      secret    |-> Absent,
      expiresIn |-> Absent ]

\* longest raw username a client may send
MaxNameLen == 4

\* number of users the collection may hold
MaxUsers == 2

\* the characters of a raw username
Alphabet == {"a", "A", " "}

\* the raw usernames: strings as sequences of characters
NameInputs == UNION { [1 .. n -> Alphabet] : n \in 0 .. MaxNameLen }

(* ---------------------------------------------------------------------- *)
(* Video model and ApiResponse: values                                    *)
(* ---------------------------------------------------------------------- *)

\* largest view count a client may supply
MaxViews == 2

\* largest status code a handler may answer with
MaxStatus == 599

\* the paths of videoSchema
VideoPaths ==
    {"videoFile", "thumbnail", "title", "description", "duration",
     "views", "isPublished", "owner"}

\* what a client may hand to new Video(...): the paths it supplies and the
\* values of the two paths that have a default
VideoInputs ==
    { [given |-> g, views |-> v, isPublished |-> b] :
        g \in SUBSET VideoPaths, v \in 0 .. MaxViews, b \in BOOLEAN }

\* an input whose unsupplied paths carry no value of their own
WellFormedInput(input) ==
    /\ "views" \notin input.given => input.views = MaxViews
    /\ "isPublished" \notin input.given => input.isPublished = FALSE

\* no Video constructed yet
NoVideo ==
    [ pc     |-> "none",
      input  |-> [given |-> {}, views |-> MaxViews, isPublished |-> FALSE],
      doc    |-> [given |-> {}, views |-> MaxViews, isPublished |-> FALSE],
      errors |-> {} ]

\* the video model module before it is imported
ModuleUnloaded ==
    [ pc       |-> "unloaded",
      plugins  |-> {},
      exported |-> FALSE,
      error    |-> "none" ]

\* no ApiResponse constructed yet
NoApiResponse ==
    [ made |-> FALSE,
      args |-> [statuscode |-> 100, data |-> "", message |-> Absent],
      obj  |-> [statuscode |-> 100, data |-> "", message |-> "",
                success |-> FALSE] ]

ServerInit ==
    /\ fs = << >>
    /\ remote = {}
    /\ calls = [i \in Invocations |-> IdleCall]
    /\ boot = BootStart

DataInit ==
    /\ doc = NewDoc
    /\ users = {}
    /\ video = NoVideo
    /\ videoModule = ModuleUnloaded
    /\ apiResponse = NoApiResponse
    /\ token = NoToken

Init ==
    /\ ServerInit
    /\ DataInit

Exists(files, p) == p \in DOMAIN files

\* a write stream opened on p: creates or truncates the file
WriteFile(files, p, content) ==
    [q \in DOMAIN files \cup {p} |-> IF q = p THEN content ELSE files[q]]

\* variant: a deletion that treats a missing file as already removed
UnlinkNeverThrows(files, p) == FALSE

\* fs.unlinkSync(p) throws ENOENT when there is no file at p
UnlinkThrows(files, p) == ~Exists(files, p)

\* variant: a deletion that leaves the file in place
UnlinkNoop(files, p) == files

\* variant: a deletion that empties the staging directory
UnlinkAll(files, p) == << >>

\* fs.unlinkSync(p) on an existing file removes the directory entry
Unlink(files, p) == [q \in DOMAIN files \ {p} |-> files[q]]

\* what the upload reads from the local path: nothing when it is missing
ReadFile(files, p) == IF Exists(files, p) THEN files[p] ELSE NoContent

(* ---------------------------------------------------------------------- *)
(* Startup script                                                         *)
(* ---------------------------------------------------------------------- *)

\* app.listen(port, callback): the server starts binding its port
listen(b) == [b EXCEPT !.pc = "listenCalled", !.listenCalls = @ + 1]

\* console.log
consoleLog(b, message) == [b EXCEPT !.log = Append(@, message)]

\* variant: the server is started without waiting for the connection
CallConnectDBAndListen ==
    /\ boot.pc = "start"
    /\ boot' = [listen(boot) EXCEPT !.pc = "connecting"]
    /\ UNCHANGED <<fs, remote, calls, dataVars>>

\* connectDB() is called and its promise is pending
CallConnectDB ==
    /\ boot.pc = "start"
    /\ boot' = [boot EXCEPT !.pc = "connecting"]
    /\ UNCHANGED <<fs, remote, calls, dataVars>>

\* connectDB() resolved: the .then callback calls app.listen
ConnectResolves ==
    /\ boot.pc = "connecting"
    /\ boot' = listen([boot EXCEPT !.db = "connected"])
    /\ UNCHANGED <<fs, remote, calls, dataVars>>

\* variant: the rejection handler starts the server all the same
ConnectRejectsThenListens ==
    /\ boot.pc = "connecting"
    /\ boot' = listen(consoleLog([boot EXCEPT !.db = "rejected"],
                                 "MONGODB CONNECTION ERROR:"))
    /\ UNCHANGED <<fs, remote, calls, dataVars>>

\* connectDB() rejected: the .catch callback logs the error
ConnectRejects ==
    /\ boot.pc = "connecting"
    /\ boot' = [consoleLog([boot EXCEPT !.db = "rejected"],
                           "MONGODB CONNECTION ERROR:")
                  EXCEPT !.pc = "failed"]
    /\ UNCHANGED <<fs, remote, calls, dataVars>>

\* connectDB() ended the process itself (process.exit(1) in its catch)
ConnectExits ==
    /\ boot.pc = "connecting"
    /\ boot' = [boot EXCEPT !.pc = "exited", !.db = "failed"]
    /\ UNCHANGED <<fs, remote, calls, dataVars>>

\* the port is bound: the callback of app.listen logs
ListenReady ==
    /\ boot.pc = "listenCalled"
    /\ boot' = [consoleLog(boot, "Server is running on port")
                  EXCEPT !.pc = "running", !.listening = TRUE]
    /\ UNCHANGED <<fs, remote, calls, dataVars>>

\* the port cannot be bound: the unhandled 'error' event ends the process
ListenFails ==
    /\ boot.pc = "listenCalled"
    /\ boot' = [boot EXCEPT !.pc = "exited"]
    /\ UNCHANGED <<fs, remote, calls, dataVars>>

\* requests reach the route handlers while the server listens
Serving == boot.listening

(* ---------------------------------------------------------------------- *)
(* Operations                                                             *)
(* ---------------------------------------------------------------------- *)

\* multer stages the file of request i, sent under field f
Stage(i, f) ==
    /\ Serving
    /\ calls[i].pc = "idle"
    /\ fs' = WriteFile(fs, StagedPath(f), i)
    /\ calls' = [calls EXCEPT ![i] =
                    [@ EXCEPT !.pc = "staged",
                              !.fieldname = f,
                              !.file = StagedPath(f)]]
    /\ UNCHANGED <<remote, boot, dataVars>>

\* variant: the guard on the input is missing
IsFalsyNever(p) == FALSE

\* !localfilepath
IsFalsy(p) == p \in EmptyInputs

\* variant: only the url of the response is handed back
ReturnUrlOnly(response) == [url |-> response.url]

\* return response
ReturnOnSuccess(response) == response

\* variant: no option is passed, the store falls back to its default type
uploadOptionsDefault == [resource_type |-> "image"]

\* { resource_type : "auto" }
uploadOptions == [resource_type |-> "auto"]

\* variant: the local file is removed before the upload is awaited
uploadToCloudinaryUnlinkFirst(i, p) ==
    /\ IF IsFalsy(p)
       THEN /\ calls' = [calls EXCEPT ![i] =
                            [@ EXCEPT !.pc = "returned",
                                      !.localfilepath = p,
                                      !.ret = Null]]
            /\ fs' = fs
       ELSE /\ calls' = [calls EXCEPT ![i] =
                            [@ EXCEPT !.pc = "uploading",
                                      !.localfilepath = p,
                                      !.sent = ReadFile(fs, p),
                                      !.uploadCalls = @ + 1,
                                      !.uploadPath = p,
                                      !.options = uploadOptions,
                                      !.unlinkCalls = @ + 1,
                                      !.outcome = "pending"]]
            /\ fs' = Unlink(fs, p)
    /\ UNCHANGED <<remote, boot, dataVars>>

\* uploadToCloudinary(p) from its entry to its first suspension or return
uploadToCloudinary(i, p) ==
    /\ IF IsFalsy(p)
       THEN calls' = [calls EXCEPT ![i] =
                        [@ EXCEPT !.pc = "returned",
                                  !.localfilepath = p,
                                  !.ret = Null]]
       ELSE calls' = [calls EXCEPT ![i] =
                        [@ EXCEPT !.pc = "uploading",
                                  !.localfilepath = p,
                                  !.sent = ReadFile(fs, p),
                                  !.uploadCalls = @ + 1,
                                  !.uploadPath = p,
                                  !.options = uploadOptions,
                                  !.outcome = "pending"]]
    /\ UNCHANGED <<fs, remote, boot, dataVars>>

\* the route handler of a request that carried a file
CallWithStagedFile(i) ==
    /\ calls[i].pc = "staged"
    /\ uploadToCloudinary(i, calls[i].file)

\* the route handler of a request that carried no file
CallWithoutFile(i, p) ==
    /\ Serving
    /\ calls[i].pc = "idle"
    /\ p \in EmptyInputs
    /\ uploadToCloudinary(i, p)

\* the await resumes with the store's response: log, return response
UploadResolves(i, r) ==
    /\ calls[i].pc = "uploading"
    /\ calls[i].sent # NoContent
    /\ remote' = remote \cup
          {[content |-> calls[i].sent, public_id |-> r.public_id]}
    /\ calls' = [calls EXCEPT ![i] =
                    [@ EXCEPT !.pc = "returned",
                              !.outcome = "resolved",
                              !.response = r,
                              !.logged = r.url,
                              !.ret = ReturnOnSuccess(r)]]
    /\ UNCHANGED <<fs, boot, dataVars>>

\* variant: a catch block that tries the upload a second time
catchBlockRetry(i, kind) ==
    /\ IF calls[i].uploadCalls < 2
       THEN calls' = [calls EXCEPT ![i] =
                        [@ EXCEPT !.uploadCalls = @ + 1,
                                  !.sent = ReadFile(fs, calls[i].localfilepath)]]
       ELSE calls' = [calls EXCEPT ![i] =
                        [@ EXCEPT !.pc = "returned",
                                  !.outcome = kind,
                                  !.ret = Null]]
    /\ UNCHANGED <<fs, remote, boot, dataVars>>

\* variant: a catch block that calls the upload again, without end
catchBlockLoop(i, kind) ==
    /\ calls' = [calls EXCEPT ![i] = [@ EXCEPT !.error = kind]]
    /\ UNCHANGED <<fs, remote, boot, dataVars>>

\* catch(error): fs.unlinkSync(localfilepath); return null
catchBlock(i, kind) ==
    /\ IF UnlinkThrows(fs, calls[i].localfilepath)
       THEN /\ fs' = fs
            /\ calls' = [calls EXCEPT ![i] =
                            [@ EXCEPT !.pc = "threw",
                                      !.outcome = kind,
                                      !.unlinkCalls = @ + 1,
                                      !.error = "ENOENT"]]
       ELSE /\ fs' = Unlink(fs, calls[i].localfilepath)
            /\ calls' = [calls EXCEPT ![i] =
                            [@ EXCEPT !.pc = "returned",
                                      !.outcome = kind,
                                      !.unlinkCalls = @ + 1,
                                      !.ret = Null]]
    /\ UNCHANGED <<remote, boot, dataVars>>

\* the await resumes with a rejection of the given kind
UploadRejects(i, kind) ==
    /\ calls[i].pc = "uploading"
    /\ catchBlock(i, kind)

Next ==
    \/ CallConnectDB
    \/ ConnectResolves
    \/ ConnectRejects
    \/ ConnectExits
    \/ ListenReady
    \/ ListenFails
    \/ \E i \in Invocations, f \in Fields : Stage(i, f)
    \/ \E i \in Invocations : CallWithStagedFile(i)
    \/ \E i \in Invocations, p \in EmptyInputs : CallWithoutFile(i, p)
    \/ \E i \in Invocations, r \in Responses : UploadResolves(i, r)
    \/ \E i \in Invocations, kind \in FailureKinds : UploadRejects(i, kind)

Spec == Init /\ [][Next]_vars

\* the remote store answers every upload call: its promise settles
UploadSettles(i) ==
    \/ \E r \in Responses : UploadResolves(i, r)
    \/ \E kind \in FailureKinds : UploadRejects(i, kind)

\* the handoff under the proviso that every upload call settles
SpecSettling ==
    Init /\ [][Next]_vars /\ \A i \in Invocations : WF_vars(UploadSettles(i))

TypeOK ==
    /\ DOMAIN fs \subseteq Paths
    /\ \A p \in DOMAIN fs : fs[p] \in Invocations
    /\ \A i \in Invocations :
          /\ calls[i].pc \in {"idle", "staged", "uploading", "returned", "threw"}
          /\ calls[i].ret \in Responses \cup {Null, Pending}
    /\ boot.pc \in {"start", "connecting", "listenCalled", "running",
                    "failed", "exited"}
    /\ boot.listenCalls \in 0 .. 1

(* ---------------------------------------------------------------------- *)
(* Properties of the upload handoff                                       *)
(* ---------------------------------------------------------------------- *)

\* the call of request i has been entered
Entered(i) == calls[i].pc \in {"uploading", "returned", "threw"}

\* the call of request i has ended, by returning or by throwing
Ended(i) == calls[i].pc \in {"returned", "threw"}

\* request i handed a path (not an empty input) to uploadToCloudinary
HasPath(i) == Entered(i) /\ calls[i].localfilepath \notin EmptyInputs

\* this step is the one in which the call of request i ends
Ends(i) == calls[i].pc = "uploading" /\ calls'[i].pc \in {"returned", "threw"}

\* C1: cleanup on success. When a call on an existing local file ends after
\* the remote upload succeeded, the local file at its path no longer exists
\* at the moment it returns.
C1_CleanupOnSuccess ==
    [][\A i \in Invocations :
          (Ends(i) /\ calls[i].sent # NoContent
                   /\ calls'[i].outcome = "resolved")
             => ~Exists(fs', calls'[i].localfilepath)]_vars

\* C2: cleanup on failure. When a call on an existing local file ends after
\* the remote upload failed, the local file at its path no longer exists at
\* the moment the call ends.
C2_CleanupOnFailure ==
    [][\A i \in Invocations :
          (Ends(i) /\ calls[i].sent # NoContent
                   /\ calls'[i].outcome \in FailureKinds)
             => ~Exists(fs', calls'[i].localfilepath)]_vars

\* C2 witness: a call on an existing file whose upload failed has returned
\* after deleting the file, and the file is gone.
C2_Witness ==
    \E i \in Invocations :
        /\ calls[i].pc = "returned"
        /\ calls[i].sent # NoContent
        /\ calls[i].outcome \in FailureKinds
        /\ calls[i].unlinkCalls = 1
        /\ ~Exists(fs, calls[i].localfilepath)

\* C3: never throws. No call of uploadToCloudinary ends by raising to its
\* caller, whatever the input, the upload's outcome and the state of the
\* local disk.
C3_NeverThrows ==
    \A i \in Invocations : calls[i].pc # "threw"

\* C4: pass-through on success. When the remote upload succeeded, the call
\* returns exactly the value the store produced.
C4_PassThrough ==
    \A i \in Invocations :
        calls[i].outcome = "resolved"
           => /\ calls[i].pc = "returned"
              /\ calls[i].ret = calls[i].response
              /\ calls[i].ret \in Responses

\* C4 witness: a call has returned the response of a successful upload.
C4_Witness ==
    \E i \in Invocations :
        /\ calls[i].pc = "returned"
        /\ calls[i].outcome = "resolved"
        /\ calls[i].response \in Responses
        /\ calls[i].logged = calls[i].response.url

\* C5: failure collapses to null. Given a local file that existed when the
\* call was made, whenever the remote upload fails the call returns null,
\* whatever the kind of failure, and raises nothing.
C5_FailureIsNull ==
    \A i \in Invocations :
        (calls[i].sent # NoContent /\ calls[i].outcome \in FailureKinds)
           => /\ calls[i].pc = "returned"
              /\ calls[i].ret = Null
              /\ calls[i].error = "none"

\* C6: no-op on empty input. A call entered with an empty or absent path
\* returns null in that same step, makes no remote upload call and no
\* deletion, and leaves the local disk and the remote store unchanged.
C6_NoOpOnEmptyInput ==
    [][\A i \in Invocations :
          (/\ calls[i].pc \in {"idle", "staged"}
           /\ calls'[i].pc \notin {"idle", "staged"}
           /\ calls'[i].localfilepath \in EmptyInputs)
             => /\ calls'[i].pc = "returned"
                /\ calls'[i].ret = Null
                /\ calls'[i].error = "none"
                /\ calls'[i].uploadCalls = 0
                /\ calls'[i].unlinkCalls = 0
                /\ fs' = fs
                /\ remote' = remote]_vars

\* C6 witness: a call with an empty input has returned null while another
\* request's staged file is still on disk.
C6_Witness ==
    \E i \in Invocations :
        /\ calls[i].pc = "returned"
        /\ calls[i].localfilepath \in EmptyInputs
        /\ calls[i].ret = Null
        /\ calls[i].uploadCalls = 0
        /\ DOMAIN fs # {}

\* C7: single network call, no retry. Every call entered with a non-empty
\* path has invoked the remote upload exactly once, and once the upload has
\* failed the call has ended: the upload is not attempted again.
C7_SingleUploadCall ==
    \A i \in Invocations :
        /\ HasPath(i) => calls[i].uploadCalls = 1
        /\ calls[i].outcome \in FailureKinds => Ended(i)
        /\ calls[i].uploadCalls <= 1

\* C7 witness: a call whose upload failed has ended with one upload call.
C7_Witness ==
    \E i \in Invocations :
        /\ HasPath(i)
        /\ Ended(i)
        /\ calls[i].outcome \in FailureKinds
        /\ calls[i].uploadCalls = 1

\* C8: exactly one deletion. Every call with a non-empty path has performed
\* exactly one local deletion by the time it returns, on the success path
\* as on the failure path.
C8_ExactlyOneDeletion ==
    \A i \in Invocations :
        (HasPath(i) /\ calls[i].pc = "returned") => calls[i].unlinkCalls = 1

\* C9: strict deletion. If the local file does not exist when a call
\* reaches its cleanup step, the call ends with the deletion error ENOENT
\* instead of returning normally.
C9_StrictDeletion ==
    [][\A i \in Invocations :
          (/\ Ends(i)
           /\ calls'[i].outcome \in FailureKinds
           /\ ~Exists(fs, calls[i].localfilepath))
             => /\ calls'[i].pc = "threw"
                /\ calls'[i].error = "ENOENT"
                /\ calls'[i].ret = Pending]_vars

\* C9 witness: a call whose file existed when the upload started has ended
\* with ENOENT because the file was removed while the upload was in flight.
C9_Witness ==
    \E i \in Invocations :
        /\ calls[i].pc = "threw"
        /\ calls[i].error = "ENOENT"
        /\ calls[i].sent # NoContent
        /\ calls[i].outcome \in FailureKinds

\* request i is between its staging and the end of its call
InFlight(i) == calls[i].pc \in {"staged", "uploading"}

\* C10: independence of concurrent uploads. Two requests in flight together
\* have distinct local paths, and the file of a request in flight is the
\* one that request staged: no other request overwrote or deleted it.
C10_IndependentUploads ==
    \A i \in Invocations :
        InFlight(i) =>
           /\ \A j \in Invocations \ {i} :
                 InFlight(j) => calls[j].file # calls[i].file
           /\ Exists(fs, calls[i].file)
           /\ fs[calls[i].file] = i

\* C11: auto-detected resource type. Every remote upload call is made with
\* the path the caller handed over, unchanged, and with the option
\* resource_type = "auto", whatever the field and the request.
C11_AutoResourceType ==
    \A i \in Invocations :
        calls[i].uploadCalls > 0
           => /\ calls[i].uploadPath = calls[i].localfilepath
              /\ calls[i].uploadPath = calls[i].file
              /\ calls[i].options = [resource_type |-> "auto"]

\* C11 witness: two requests sent under different fields have both made
\* their upload call.
C11_Witness ==
    \E i, j \in Invocations :
        /\ calls[i].uploadCalls = 1
        /\ calls[j].uploadCalls = 1
        /\ calls[i].uploadPath # calls[j].uploadPath
        /\ calls[i].options.resource_type = "auto"

\* the upload call of request i has settled, either way
Settled(i) == calls[i].outcome \in FailureKinds \cup {"resolved"}

\* C21: file available during upload. A call never deletes its local file
\* before its upload has settled: a deletion by the call happens only in
\* the step that follows the settling, in which the call also ends.
C21_NoDeletionBeforeSettle ==
    /\ [](\A i \in Invocations :
             calls[i].unlinkCalls > 0 => (Settled(i) /\ Ended(i)))
    /\ [][\A i \in Invocations :
             calls'[i].unlinkCalls # calls[i].unlinkCalls
                => /\ calls[i].pc = "uploading"
                   /\ calls[i].uploadCalls = 1
                   /\ calls'[i].outcome \in FailureKinds
                   /\ calls'[i].pc \in {"returned", "threw"}]_vars

\* C21 witness: a call whose upload failed has made its one deletion and
\* ended, while another call's upload is still in flight with no deletion.
C21_Witness ==
    \E i, j \in Invocations :
        /\ calls[i].pc = "returned"
        /\ calls[i].unlinkCalls = 1
        /\ calls[i].outcome \in FailureKinds
        /\ calls[j].pc = "uploading"
        /\ calls[j].unlinkCalls = 0

\* this step belongs to the call of request i: it enters it or ends it
CallStep(i) ==
    /\ calls'[i] # calls[i]
    /\ calls'[i].pc \in {"uploading", "returned", "threw"}

\* C22: deletion frame. A step of a call with path p leaves every local
\* file other than the one at p as it was: present with the same content,
\* or absent.
C22_DeletionFrame ==
    [][\A i \in Invocations :
          CallStep(i) =>
             \A q \in Paths \ {calls'[i].localfilepath} :
                /\ Exists(fs', q) <=> Exists(fs, q)
                /\ Exists(fs, q) => fs'[q] = fs[q]]_vars

\* C22 witness: a call has deleted its own file on the failure path and a
\* file staged at another path is still on disk.
C22_Witness ==
    \E i \in Invocations :
        /\ calls[i].pc = "returned"
        /\ calls[i].outcome \in FailureKinds
        /\ calls[i].unlinkCalls = 1
        /\ ~Exists(fs, calls[i].localfilepath)
        /\ \E q \in DOMAIN fs : q # calls[i].localfilepath

\* C23: termination. Provided every upload call settles, every call that
\* was entered ends, by returning or by raising; and a call whose upload
\* has settled has ended, with nothing left to run.
C23_Termination ==
    /\ \A i \in Invocations : Entered(i) ~> Ended(i)
    /\ [](\A i \in Invocations : Settled(i) => Ended(i))

\* C23 witness: every request's call has ended, one of them by raising.
C23_Witness ==
    /\ \A i \in Invocations : Ended(i) /\ calls[i].uploadCalls = 1
    /\ \E i \in Invocations : calls[i].pc = "threw"

C12_ListenAfterConnect ==
    (boot.listenCalls > 0 \/ boot.listening) => boot.db = "connected"

\* C12 witness: the server listens and the database is connected.
C12_Witness ==
    /\ boot.listening
    /\ boot.listenCalls = 1
    /\ boot.db = "connected"

\* C20: no listen on connection failure. Once connectDB has rejected,
\* app.listen has not been called and is never called; the script has
\* only logged the connection error.
C20_NoListenOnFailure ==
    boot.db = "rejected"
       => /\ boot.listenCalls = 0
          /\ ~boot.listening
          /\ boot.pc = "failed"
          /\ boot.log = <<"MONGODB CONNECTION ERROR:">>

\* C20 witness: connectDB has rejected and the error was logged.
C20_Witness ==
    /\ boot.db = "rejected"
    /\ boot.pc = "failed"
    /\ Len(boot.log) = 1

(* ---------------------------------------------------------------------- *)
(* User model: password hook and password check                           *)
(* ---------------------------------------------------------------------- *)

\* password minlength
passwordMinLength == 6

\* bcrypt.hash(value, 10): the value under one more salted hash
Hash(v, salt) == [plain |-> v.plain, salts |-> Append(v.salts, salt)]

\* bcrypt's own comparison: hash is the salted hash of the candidate
Matches(q, hash) ==
    /\ Len(hash.salts) >= 1
    /\ [plain |-> hash.plain,
        salts |-> SubSeq(hash.salts, 1, Len(hash.salts) - 1)] = Plain(q)

\* a JavaScript boolean as the check reports it
BoolStr(b) == IF b THEN "true" ELSE "false"

\* bcrypt.compare(q, hash, callback): with a callback the result goes to
\* the callback and the call itself returns undefined; without one it
\* returns a promise of the boolean
bcryptCompare(q, hash, withCallback) ==
    IF withCallback THEN "undefined" ELSE BoolStr(Matches(q, hash))

\* isPasswordCorrect(password): awaits bcrypt.compare called with a callback
isPasswordCorrect(d, q) == bcryptCompare(q, d.password, TRUE)

\* the validators of the password path: required, minlength
PasswordValid(d) ==
    /\ d.password # NoPassword
    /\ (d.modified /\ d.password.salts = << >>)
          => Len(d.password.plain) >= passwordMinLength

\* variant: the hook hashes on every save
SkipHashNever(d) == FALSE

\* !this.isModified("password")
SkipHash(d) == ~d.modified

\* what the save writes for the password path: modified paths only
Persist(d, password, modified) == IF modified THEN password ELSE d.stored

\* user.password = p
AssignPassword(p) ==
    /\ doc.pc = "idle"
    /\ doc' = [doc EXCEPT !.password = Plain(p),
                          !.modified = @ \/ (Plain(p) # doc.password),
                          !.assigned = p]
    /\ UNCHANGED <<serverVars, users, videoVars, apiResponse, token>>

\* variant: the hook without its return, so that next() is followed by
\* the hashing all the same
SaveStartNoReturn ==
    /\ doc.pc = "idle"
    /\ PasswordValid(doc)
    /\ doc' = [doc EXCEPT !.pc = "hashing",
                          !.nextCalls = IF SkipHash(doc) THEN 1 ELSE 0,
                          !.hashInput = doc.password]
    /\ UNCHANGED <<serverVars, users, videoVars, apiResponse, token>>

\* user.save(): validation, then the pre-save hook up to its await or,
\* when the password is unmodified, through next() to the write
SaveStart ==
    /\ doc.pc = "idle"
    /\ PasswordValid(doc)
    /\ IF SkipHash(doc)
       THEN doc' = [doc EXCEPT !.nextCalls = 1,
                               !.lastSave = "skipped",
                               !.stored = Persist(doc, doc.password, doc.modified),
                               !.modified = FALSE]
       ELSE doc' = [doc EXCEPT !.pc = "hashing",
                               !.nextCalls = 0,
                               !.hashInput = doc.password]
    /\ UNCHANGED <<serverVars, users, videoVars, apiResponse, token>>

\* bcrypt.hash resolved: this.password = hash; next(); the write
HashDone(salt) ==
    /\ doc.pc = "hashing"
    /\ LET hashed == Hash(doc.hashInput, salt)
           modified == doc.modified \/ (hashed # doc.password)
       IN doc' = [doc EXCEPT !.pc = "idle",
                             !.password = hashed,
                             !.nextCalls = @ + 1,
                             !.lastSave = "hashed",
                             !.stored = Persist(doc, hashed, modified),
                             !.modified = FALSE]
    /\ UNCHANGED <<serverVars, users, videoVars, apiResponse, token>>

\* await user.isPasswordCorrect(q)
CheckPassword(q) ==
    /\ doc.pc = "idle"
    /\ doc.password # NoPassword
    /\ doc' = [doc EXCEPT !.candidate = q,
                          !.against = doc.password,
                          !.check = isPasswordCorrect(doc, q)]
    /\ UNCHANGED <<serverVars, users, videoVars, apiResponse, token>>

\* the document is given its id and its required identity fields
AssignIdentity(p) ==
    /\ doc.pc = "idle"
    /\ doc' = [doc EXCEPT !.id = p.id,
                          !.username = p.username,
                          !.email = p.email,
                          !.fullname = p.fullname]
    /\ UNCHANGED <<serverVars, users, videoVars, apiResponse, token>>

\* the document has its id and its required identity fields
HasIdentity(d) ==
    /\ d.id # Absent
    /\ d.username # Absent
    /\ d.email # Absent
    /\ d.fullname # Absent

\* jwt.sign: the token carries the members of the payload that have a
\* value (JSON leaves out undefined ones), is signed with the secret and
\* expires as the options say
jwtSign(payload, secret, options) ==
    [ payload   |-> [k \in {x \in DOMAIN payload : payload[x] # Absent}
                        |-> payload[k]],
      secret    |-> secret,
      expiresIn |-> options.expiresIn ]

\* the payload generateAccessToken hands to jwt.sign
accessPayload(d) ==
    [ _id      |-> d.id,
      username |-> d.username,
      email    |-> d.email,
      fullname |-> d.fullname ]

\* the payload generateRefreshToken hands to jwt.sign
refreshPayload(d) == [_id |-> d.id]

\* the secret generateAccessToken signs with
accessSecret == env.ACCESS_TOKEN_SECRET

\* variant: the refresh token signed with the access token's secret
refreshSecretShared == env.ACCESS_TOKEN_SECRET

\* the secret generateRefreshToken signs with
refreshSecret == env.REFRESH_TOKEN_SECRET

\* the token jwt.sign returned to method m
Signed(m, t) ==
    [ method    |-> m,
      payload   |-> t.payload,
      secret    |-> t.secret,
      expiresIn |-> t.expiresIn ]

\* user.generateAccessToken()
GenerateAccessToken ==
    /\ HasIdentity(doc)
    /\ token' = Signed("generateAccessToken",
                       jwtSign(accessPayload(doc), accessSecret,
                               [expiresIn |-> env.ACCESS_TOKEN_EXPIRY]))
    /\ UNCHANGED <<serverVars, doc, users, videoVars, apiResponse>>

\* user.generateRefreshToken()
GenerateRefreshToken ==
    /\ HasIdentity(doc)
    /\ token' = Signed("generateRefreshToken",
                       jwtSign(refreshPayload(doc), refreshSecret,
                               [expiresIn |-> env.REFRESH_TOKEN_EXPIRY]))
    /\ UNCHANGED <<serverVars, doc, users, videoVars, apiResponse>>

NextUser ==
    \/ \E p \in Plaintexts : AssignPassword(p)
    \/ SaveStart
    \/ \E salt \in Salts : HashDone(salt)
    \/ \E q \in Plaintexts : CheckPassword(q)
    \/ \E p \in Identities : AssignIdentity(p)
    \/ GenerateAccessToken
    \/ GenerateRefreshToken

SpecUser == Init /\ [][NextUser]_vars

\* the stored password is one salted hash of a plaintext
SingleHash(v) == Len(v.salts) = 1 /\ v.plain \in Plaintexts

\* C13: passwords are never persisted in plaintext and never double-hashed.
\* The persisted password is always a single hash; once a save has
\* completed it is the hash of the most recently assigned plaintext; and
\* it changes only in a save whose password field was modified.
C13_PasswordHashedOnce ==
    /\ [](/\ doc.stored # NoPassword => SingleHash(doc.stored)
          /\ (doc.pc = "idle" /\ ~doc.modified /\ doc.stored # NoPassword)
                => /\ doc.stored = doc.password
                   /\ Matches(doc.assigned, doc.stored))
    /\ [][doc'.stored # doc.stored => doc.modified]_vars

\* C13 witness: a password was assigned and saved, and a further save with
\* the password unmodified went through the hook without hashing.
C13_Witness ==
    /\ doc.pc = "idle"
    /\ doc.lastSave = "skipped"
    /\ ~doc.modified
    /\ SingleHash(doc.stored)
    /\ doc.stored.plain = doc.assigned

\* C14: password verification round-trip. For a user whose password is the
\* hash of p, isPasswordCorrect(q) resolves to true when q = p and to false
\* otherwise.
C14_PasswordRoundTrip ==
    (doc.check # "none" /\ SingleHash(doc.against))
       => doc.check = BoolStr(doc.candidate = doc.against.plain)

(* ---------------------------------------------------------------------- *)
(* User model: username                                                   *)
(* ---------------------------------------------------------------------- *)

\* username minlength
usernameMinLength == 3

RECURSIVE TrimLeft(_)
\* the string without its leading whitespace
TrimLeft(str) ==
    IF str # << >> /\ Head(str) = " " THEN TrimLeft(Tail(str)) ELSE str

RECURSIVE TrimRight(_)
\* the string without its trailing whitespace
TrimRight(str) ==
    IF str # << >> /\ str[Len(str)] = " "
    THEN TrimRight(SubSeq(str, 1, Len(str) - 1))
    ELSE str

\* String.prototype.trim, the setter of trim: true
Trim(str) == TrimRight(TrimLeft(str))

\* String.prototype.toLowerCase, the setter of lowercase: true
Lowercase(str) == [k \in 1 .. Len(str) |-> IF str[k] = "A" THEN "a" ELSE str[k]]

\* the setters the schema declares on username: trim
usernameSetters(raw) == Trim(raw)

\* the validators of the username path: required, minlength
UsernameValid(name) == name # << >> /\ Len(name) >= usernameMinLength

\* User.create({username: raw, ...}): setters, validators, unique index
CreateUser(raw) ==
    LET username == usernameSetters(raw) IN
    /\ Cardinality(users) < MaxUsers
    /\ UsernameValid(username)
    /\ username \notin users
    /\ users' = users \cup {username}
    /\ UNCHANGED <<serverVars, doc, videoVars, apiResponse, token>>

NextUsernames ==
    \E raw \in NameInputs : CreateUser(raw)

SpecUsernames == Init /\ [][NextUsernames]_vars

\* C19: username normalisation. Every stored username is trimmed and
\* lowercased, so no two stored usernames differ only in letter case or
\* surrounding whitespace.
C19_UsernameNormalised ==
    /\ \A u \in users : u = Lowercase(Trim(u))
    /\ \A u, v \in users : Lowercase(Trim(u)) = Lowercase(Trim(v)) => u = v

(* ---------------------------------------------------------------------- *)
(* Video model                                                            *)
(* ---------------------------------------------------------------------- *)

\* the names the module's import statement binds
VideoImports == {"mongoose", "Schema"}

\* the identifier handed to videoSchema.plugin
pluginIdentifier == "moongooseAggregatePaginate"

\* the paths declared required: true
RequiredPaths == {"videoFile", "thumbnail", "title", "description", "duration"}

\* views: default
viewsDefault == 0

\* variant: the video is unpublished unless said otherwise
isPublishedDefaultFalse == FALSE

\* isPublished: default
isPublishedDefault == TRUE

\* new Video(input): the supplied paths, and the defaults for the others
ApplyDefaults(input) ==
    [ given       |-> input.given \cup {"views", "isPublished"},
      views       |-> IF "views" \in input.given
                      THEN input.views ELSE viewsDefault,
      isPublished |-> IF "isPublished" \in input.given
                      THEN input.isPublished ELSE isPublishedDefault ]

\* validate(): the required paths the document lacks
ValidationErrors(d) == RequiredPaths \ d.given

\* new Video(input)
NewVideo(input) ==
    /\ video.pc = "none"
    /\ WellFormedInput(input)
    /\ video' = [video EXCEPT !.pc = "constructed",
                              !.input = input,
                              !.doc = ApplyDefaults(input)]
    /\ UNCHANGED <<serverVars, doc, users, videoModule, apiResponse, token>>

\* video.validate(), as save runs it
ValidateVideo ==
    /\ video.pc = "constructed"
    /\ video' = [video EXCEPT !.pc = "validated",
                              !.errors = ValidationErrors(video.doc)]
    /\ UNCHANGED <<serverVars, doc, users, videoModule, apiResponse, token>>

\* import of video.model.js: the module body runs top to bottom; a
\* reference to an identifier that nothing binds throws ReferenceError
LoadVideoModule ==
    /\ videoModule.pc = "unloaded"
    /\ IF pluginIdentifier \in VideoImports
       THEN videoModule' = [videoModule EXCEPT !.pc = "loaded",
                                               !.plugins = {pluginIdentifier},
                                               !.exported = TRUE]
       ELSE videoModule' = [videoModule EXCEPT !.pc = "threw",
                                               !.error = "ReferenceError"]
    /\ UNCHANGED <<serverVars, doc, users, video, apiResponse, token>>

NextVideo ==
    \/ \E input \in VideoInputs : NewVideo(input)
    \/ ValidateVideo
    \/ LoadVideoModule

SpecVideo == Init /\ [][NextVideo]_vars

\* C16: loading the video model module applies the aggregate-paginate
\* plugin to videoSchema and exports the Video model, without error.
C16_VideoModuleLoads ==
    videoModule.pc # "unloaded"
       => /\ videoModule.pc = "loaded"
          /\ videoModule.plugins # {}
          /\ videoModule.exported
          /\ videoModule.error = "none"

\* C17: video defaults. A Video constructed without a views value has
\* views = 0 and one constructed without an isPublished value has
\* isPublished = true.
C17_VideoDefaults ==
    video.pc # "none"
       => /\ "views" \notin video.input.given
                => ("views" \in video.doc.given /\ video.doc.views = 0)
          /\ "isPublished" \notin video.input.given
                => /\ "isPublished" \in video.doc.given
                   /\ video.doc.isPublished = TRUE

\* C17 witness: a Video was constructed from an input with neither views
\* nor isPublished.
C17_Witness ==
    /\ video.pc = "constructed"
    /\ "views" \notin video.input.given
    /\ "isPublished" \notin video.input.given
    /\ "title" \in video.input.given
    /\ video.doc.views = 0
    /\ video.doc.isPublished

\* C18: video description is optional. A Video that supplies videoFile,
\* thumbnail, title and duration but no description passes validation.
C18_DescriptionOptional ==
    (/\ video.pc = "validated"
     /\ {"videoFile", "thumbnail", "title", "duration"} \subseteq video.input.given
     /\ "description" \notin video.input.given)
       => video.errors = {}

(* ---------------------------------------------------------------------- *)
(* ApiResponse                                                            *)
(* ---------------------------------------------------------------------- *)

\* the status codes a handler may answer with
StatusCodes == 100 .. MaxStatus

\* the payloads a handler may answer with
DataValues == {"user", "videos"}

\* the messages a handler may pass, or none
MessageArgs == {"fetched", "created", Absent}

\* message = "success": the default applies when the argument is omitted
messageOrDefault(message) == IF message = Absent THEN "success" ELSE message

\* variant: the boundary code counts as a success
successInclusive(statuscode) == statuscode <= 400

\* statuscode < 400
success(statuscode) == statuscode < 400

\* new ApiResponse(statuscode, data, message)
ApiResponse(statuscode, data, message) ==
    [ data       |-> data,
      statuscode |-> statuscode,
      message    |-> messageOrDefault(message),
      success    |-> success(statuscode) ]

\* a handler constructs its response: the constructor runs once per object
ConstructApiResponse(statuscode, data, message) ==
    /\ ~apiResponse.made
    /\ apiResponse' =
          [ made |-> TRUE,
            args |-> [statuscode |-> statuscode, data |-> data,
                      message |-> message],
            obj  |-> ApiResponse(statuscode, data, message) ]
    /\ UNCHANGED <<serverVars, doc, users, videoVars, token>>

NextApi ==
    \E statuscode \in StatusCodes, data \in DataValues, message \in MessageArgs :
        ConstructApiResponse(statuscode, data, message)

SpecApi == Init /\ [][NextApi]_vars

\* C15: ApiResponse success flag. An ApiResponse constructed with status
\* code s has success = true exactly when s < 400, and holds the data, the
\* status code and the message it was given, the message being "success"
\* when none was given.
C15_ApiResponseSuccess ==
    apiResponse.made
       => /\ apiResponse.obj.success = TRUE <=> apiResponse.args.statuscode < 400
          /\ apiResponse.obj.success = FALSE <=> apiResponse.args.statuscode >= 400
          /\ apiResponse.obj.data = apiResponse.args.data
          /\ apiResponse.obj.statuscode = apiResponse.args.statuscode
          /\ apiResponse.args.message # Absent
                => apiResponse.obj.message = apiResponse.args.message
          /\ apiResponse.args.message = Absent
                => apiResponse.obj.message = "success"

\* C15 witness: a response was constructed with status code 400 and no
\* message.
C15_Witness ==
    /\ apiResponse.made
    /\ apiResponse.args.statuscode = 400
    /\ apiResponse.args.message = Absent
    /\ apiResponse.obj.success = FALSE
    /\ apiResponse.obj.message = "success"

\* C25: the pre-save hook calls next exactly once per save. A save whose
\* password is unmodified calls it at once, with no hashing and the
\* password as it was; a save whose password is modified calls it in the
\* step that assigns the hash, not while the hash is pending; and no save
\* calls it twice.
C25_NextExactlyOnce ==
    /\ [](/\ doc.nextCalls <= 1
          /\ doc.pc = "hashing" => doc.nextCalls = 0
          /\ (doc.pc = "idle" /\ doc.lastSave # "none") => doc.nextCalls = 1)
    /\ [][/\ (doc.lastSave # "skipped" /\ doc'.lastSave = "skipped")
                => /\ ~doc.modified
                   /\ doc.pc = "idle" /\ doc'.pc = "idle"
                   /\ doc'.password = doc.password
                   /\ doc'.nextCalls = 1
          /\ (doc.pc = "idle" /\ doc'.pc = "hashing")
                => doc.modified /\ doc'.nextCalls = 0
          /\ (doc.pc = "hashing" /\ doc'.pc = "idle")
                => /\ doc.nextCalls = 0
                   /\ doc'.nextCalls = 1
                   /\ doc'.lastSave = "hashed"
                   /\ \E salt \in Salts :
                         doc'.password = Hash(doc.hashInput, salt)
          /\ (doc.pc = "idle" /\ doc'.pc = "idle" /\ doc.modified)
                => /\ doc'.nextCalls = doc.nextCalls
                   /\ doc'.lastSave = doc.lastSave]_vars

\* C25 witness: a save that hashed was followed by a save of the
\* unmodified password, which called next once and hashed nothing.
C25_Witness ==
    /\ doc.pc = "idle"
    /\ doc.lastSave = "skipped"
    /\ doc.nextCalls = 1
    /\ SingleHash(doc.password)
    /\ doc.stored = doc.password

====
